---- MODULE Spec2Model ----
(***************************************************************************)
(* Model of the tiered natural-language search and of the advanced search *)
(* of the RKS backend (controllers/searchController.js), together with    *)
(* the record store they read and the record operations that change it.   *)
(*                                                                         *)
(* A string is a sequence of one-character strings, so that trimming,      *)
(* splitting, case folding, escaping and pattern matching are computed     *)
(* character by character as the code computes them.                       *)
(***************************************************************************)
EXTENDS Integers, Sequences, FiniteSets, TLC

(***************************************************************************)
(* Bounds of the model                                                     *)
(***************************************************************************)
\* number of record mutations (create / delete) by other requests in a run
MaxMutations == 1
\* record operations with a file or an update, in a run of record operations
MaxRecordOps == 2

(***************************************************************************)
(* Program constants                                                       *)
(***************************************************************************)
\* SEARCH_DEFAULTS.LIMIT
LIMIT == 20
\* SEARCH_DEFAULTS.PAGE
PAGE == 1
\* SEARCH_DEFAULTS.SORT_ORDER
SORT_ORDER == -1
\* searchValidators.basic: isLength({ min: 1, max: 500 })
MinQueryLen == 1
MaxQueryLen == 500
\* searchValidators.advanced: limit isInt({ min: 1, max: 100 }), page isInt({ min: 1 })
MinLimit == 1
MaxLimit == 100
MinPage == 1
\* HTTP_STATUS
OK == 200
CREATED == 201
BAD_REQUEST == 400
NOT_FOUND == 404
INTERNAL_SERVER_ERROR == 500

(***************************************************************************)
(* Strings                                                                 *)
(***************************************************************************)
\* whitespace as matched by \s and removed by trim(), within the alphabet
IsSpace(c) == c \in {" ", "\t"}

\* String.prototype.toLowerCase, one character
LowerChar(c) ==
  CASE c = "K" -> "k"
    [] c = "S" -> "s"
    [] c = "N" -> "n"
    [] c = "D" -> "d"
    [] c = "X" -> "x"
    [] c = "Y" -> "y"
    [] OTHER -> c

\* String.prototype.toLowerCase
toLowerCase(s) == [i \in 1..Len(s) |-> LowerChar(s[i])]

RECURSIVE TrimLeft(_)
TrimLeft(s) ==
  IF s = <<>> THEN <<>>
  ELSE IF IsSpace(Head(s)) THEN TrimLeft(Tail(s)) ELSE s

RECURSIVE TrimRight(_)
TrimRight(s) ==
  IF s = <<>> THEN <<>>
  ELSE IF IsSpace(s[Len(s)]) THEN TrimRight(SubSeq(s, 1, Len(s) - 1)) ELSE s

\* a trim that forgets the trailing whitespace
TrimNothing(s) == s

\* String.prototype.trim, and the validator's trim() sanitizer
Trim(s) == TrimRight(TrimLeft(s))

\* String.prototype.includes(' ')
includesSpace(s) == \E i \in 1..Len(s) : s[i] = " "

\* s.replace(/\s+/g, '')
stripWhitespace(s) == SelectSeq(s, LAMBDA c : ~IsSpace(c))

\* s.split(' '): the pieces between single blanks, empty pieces included
RECURSIVE SplitFrom(_, _, _)
SplitFrom(s, i, cur) ==
  IF i > Len(s) THEN <<cur>>
  ELSE IF s[i] = " " THEN <<cur>> \o SplitFrom(s, i + 1, <<>>)
  ELSE SplitFrom(s, i + 1, Append(cur, s[i]))

split(s) == SplitFrom(s, 1, <<>>)

\* words.join(' ')
RECURSIVE join(_)
join(words) ==
  IF words = <<>> THEN <<>>
  ELSE IF Len(words) = 1 THEN words[1]
  ELSE words[1] \o <<" ">> \o join(Tail(words))

\* an add that keeps a pattern it already holds a second time
AddPatternAgain(patterns, p) == Append(patterns, p)

\* Set.add followed by Array.from: insertion order, no duplicates
AddPattern(patterns, p) ==
  IF \E i \in 1..Len(patterns) : patterns[i] = p THEN patterns
  ELSE Append(patterns, p)

RECURSIVE AddAll(_, _)
AddAll(patterns, ps) ==
  IF ps = <<>> THEN patterns
  ELSE AddAll(AddPattern(patterns, Head(ps)), Tail(ps))

Range(s) == {s[i] : i \in 1..Len(s)}

(***************************************************************************)
(* Pattern matching: escapeRegex and the store's $regex operator           *)
(***************************************************************************)
\* the characters of the class [.*+?^${}()|[\]\\]
RegexSpecials == {".", "*", "+", "?", "^", "$", "{", "}", "(", ")", "|", "[", "]", "\\"}

\* escapeRegex: text.replace(/[.*+?^${}()|[\]\\]/g, '\\$&')
RECURSIVE escapeRegex(_)
escapeRegex(text) ==
  IF text = <<>> THEN <<>>
  ELSE IF Head(text) \in RegexSpecials
       THEN <<"\\", Head(text)>> \o escapeRegex(Tail(text))
       ELSE <<Head(text)>> \o escapeRegex(Tail(text))

\* a compiled pattern: its alternatives, each a sequence of atoms
\* (a literal character or the wildcard), each atom possibly starred
LitAtom(c) == [any |-> FALSE, ch |-> c, star |-> FALSE]
AnyAtom == [any |-> TRUE, ch |-> ".", star |-> FALSE]
InvalidRegex == [ok |-> FALSE, alts |-> <<>>]

\* compilation of a $regex string by the store: \c is the literal c, . is
\* the wildcard, * repeats the atom before it, | separates alternatives;
\* a * with nothing to repeat, a trailing \ and a ( that is never closed
\* (no pattern of the model holds a closing one) are compile errors
RECURSIVE CompileFrom(_, _, _, _)
CompileFrom(p, i, alts, cur) ==
  IF i > Len(p) THEN [ok |-> TRUE, alts |-> Append(alts, cur)]
  ELSE
    LET c == p[i] IN
    IF c = "\\" THEN
      IF i = Len(p) THEN InvalidRegex
      ELSE CompileFrom(p, i + 2, alts, Append(cur, LitAtom(p[i + 1])))
    ELSE IF c = "." THEN CompileFrom(p, i + 1, alts, Append(cur, AnyAtom))
    ELSE IF c = "*" THEN
      IF cur = <<>> \/ cur[Len(cur)].star THEN InvalidRegex
      ELSE CompileFrom(p, i + 1, alts, [cur EXCEPT ![Len(cur)].star = TRUE])
    ELSE IF c = "|" THEN CompileFrom(p, i + 1, Append(alts, cur), <<>>)
    ELSE IF c = "(" THEN InvalidRegex
    ELSE CompileFrom(p, i + 1, alts, Append(cur, LitAtom(c)))

Compile(p) == CompileFrom(p, 1, <<>>, <<>>)

\* one atom against one character, with $options: 'i'
AtomMatches(a, c) == a.any \/ LowerChar(a.ch) = LowerChar(c)

\* the atoms from the k-th on match the text from position i on
RECURSIVE MatchHere(_, _, _, _)
MatchHere(atoms, k, text, i) ==
  IF k > Len(atoms) THEN TRUE
  ELSE IF atoms[k].star THEN
    \/ MatchHere(atoms, k + 1, text, i)
    \/ /\ i <= Len(text)
       /\ AtomMatches(atoms[k], text[i])
       /\ MatchHere(atoms, k, text, i + 1)
  ELSE
    /\ i <= Len(text)
    /\ AtomMatches(atoms[k], text[i])
    /\ MatchHere(atoms, k + 1, text, i + 1)

\* a compiled pattern on a string: an unanchored, case-insensitive match
CompiledMatches(re, text) ==
  /\ re.ok
  /\ \E a \in 1..Len(re.alts) :
       \E i \in 1..(Len(text) + 1) : MatchHere(re.alts[a], 1, text, i)

\* { field: { $regex: p, $options: 'i' } } on a string
RegexMatches(p, text) == CompiledMatches(Compile(p), text)

\* the text contains the term as a literal substring, case-insensitively
ContainsLiteral(text, term) ==
  \E i \in 1..(Len(text) - Len(term) + 1) :
    \A j \in 1..Len(term) : LowerChar(text[i + j - 1]) = LowerChar(term[j])

(***************************************************************************)
(* Pattern generation                                                      *)
(***************************************************************************)
\* words.slice(i, j) for 0-based i, j: the words i+1 .. j
slice(words, i, j) == SubSeq(words, i + 1, j)

\* the double loop of generateAllSearchPatterns over the adjacent-word
\* phrases, in the loop's order (i outer, j inner)
RECURSIVE PhraseLoop(_, _, _, _)
PhraseLoop(words, i, j, patterns) ==
  IF i >= Len(words) THEN patterns
  ELSE IF j > Len(words) THEN PhraseLoop(words, i + 1, i + 2, patterns)
  ELSE
    LET phrase == join(slice(words, i, j)) IN
    IF Len(phrase) > 3
    THEN PhraseLoop(words, i, j + 1,
                    AddPattern(AddPattern(patterns, phrase), stripWhitespace(phrase)))
    ELSE PhraseLoop(words, i, j + 1, patterns)

\* a generator that keeps the words of one and two characters
generateAllSearchPatternsShortWords(query) ==
  LET p1 == AddPattern(<<>>, query)
      p2 == AddPattern(p1, toLowerCase(query))
      p3 == IF includesSpace(query)
            THEN AddPattern(AddPattern(p2, stripWhitespace(query)),
                            stripWhitespace(toLowerCase(query)))
            ELSE p2
      words == LET all == split(query)
               IN [k \in 1..Len(all) |-> toLowerCase(all[k])]
      p4 == AddAll(p3, words)
  IN IF Len(words) > 1 THEN PhraseLoop(words, 0, 1, p4) ELSE p4

\* generateAllSearchPatterns(query)
generateAllSearchPatterns(query) ==
  LET p1 == AddPattern(<<>>, query)
      p2 == AddPattern(p1, toLowerCase(query))
      p3 == IF includesSpace(query)
            THEN AddPattern(AddPattern(p2, stripWhitespace(query)),
                            stripWhitespace(toLowerCase(query)))
            ELSE p2
      words == LET long == SelectSeq(split(query), LAMBDA w : Len(w) > 2)
               IN [k \in 1..Len(long) |-> toLowerCase(long[k])]
      p4 == AddAll(p3, words)
  IN IF Len(words) > 1 THEN PhraseLoop(words, 0, 1, p4) ELSE p4

\* the body of keywords.forEach in Tier 2: the patterns pushed for one keyword
expandKeyword(keyword) ==
  IF includesSpace(keyword)
  THEN LET words == split(keyword) IN
       <<keyword, stripWhitespace(keyword)>> \o (IF Len(words) > 1 THEN words ELSE <<>>)
  ELSE <<keyword>>

RECURSIVE expandAll(_)
expandAll(keywords) ==
  IF keywords = <<>> THEN <<>>
  ELSE expandKeyword(Head(keywords)) \o expandAll(Tail(keywords))

\* searchPatterns of Tier 2, before the duplicates are removed
searchPatternsOf(searchParams, query) ==
  IF searchParams.hasKeywords /\ Len(searchParams.keywords) > 0
  THEN expandAll(searchParams.keywords)
  ELSE <<query>> \o (IF includesSpace(query) THEN <<stripWhitespace(query)>> ELSE <<>>)

\* allVariations = [...new Set(searchPatterns)]
allVariationsOf(searchParams, query) == AddAll(<<>>, searchPatternsOf(searchParams, query))

(***************************************************************************)
(* The AI service's local stand-in: extractKeywordsManually                *)
(***************************************************************************)
\* String.prototype.includes(t): t occurs in s, case-sensitively
includes(s, t) ==
  \E i \in 1..(Len(s) - Len(t) + 1) : SubSeq(s, i, i + Len(t) - 1) = t

\* t occurs in s at position i
StartsAt(s, i, t) ==
  i + Len(t) - 1 <= Len(s) /\ SubSeq(s, i, i + Len(t) - 1) = t

\* the alternatives of /(i want to|i need to|find|...|with the name)/g, in
\* the order the pattern tries them
StopPhrases ==
  << <<"i", " ", "w", "a", "n", "t", " ", "t", "o">>,
     <<"i", " ", "n", "e", "e", "d", " ", "t", "o">>, <<"f", "i", "n", "d">>,
     <<"s", "e", "a", "r", "c", "h">>,
     <<"l", "o", "o", "k", " ", "f", "o", "r">>, <<"t", "h", "a", "t">>,
     <<"d", "o", "c", "u", "m", "e", "n", "t">>,
     <<"c", "a", "l", "l", "e", "d">>, <<"n", "a", "m", "e", "d">>,
     <<"w", "i", "t", "h", " ", "t", "h", "e", " ", "n", "a", "m", "e">> >>

\* .replace(/(...)/g, ''): scanning from the left, the first alternative that
\* matches at a position is removed
RECURSIVE removePhrasesFrom(_, _)
removePhrasesFrom(s, i) ==
  IF i > Len(s) THEN <<>>
  ELSE IF \E k \in 1..Len(StopPhrases) : StartsAt(s, i, StopPhrases[k])
       THEN LET k == CHOOSE k \in 1..Len(StopPhrases) :
                       /\ StartsAt(s, i, StopPhrases[k])
                       /\ \A j \in 1..(k - 1) : ~StartsAt(s, i, StopPhrases[j])
            IN removePhrasesFrom(s, i + Len(StopPhrases[k]))
       ELSE <<s[i]>> \o removePhrasesFrom(s, i + 1)

\* .replace(/\s+/g, ' '): every run of whitespace becomes one blank
RECURSIVE collapseWhitespace(_)
collapseWhitespace(s) ==
  IF s = <<>> THEN <<>>
  ELSE IF IsSpace(Head(s))
       THEN <<" ">> \o collapseWhitespace(TrimLeft(s))
       ELSE <<Head(s)>> \o collapseWhitespace(Tail(s))

\* the words the second filter drops
StopWords ==
  { <<"t", "h", "e">>, <<"a", "n", "d">>, <<"f", "o", "r">>,
    <<"y", "o", "u">>, <<"a", "r", "e">>, <<"w", "a", "s">>,
    <<"w", "e", "r", "e">> }

\* typeKeywords, in the order of Object.entries
TypeKeywords ==
  << [type |-> "note", keywords |->
        { <<"n", "o", "t", "e">>, <<"t", "e", "x", "t">>,
          <<"d", "o", "c", "u", "m", "e", "n", "t">>, <<"d", "o", "c">>,
          <<"t", "x", "t">>, <<"w", "r", "i", "t", "e">> }],
     [type |-> "image", keywords |->
        { <<"i", "m", "a", "g", "e">>, <<"p", "h", "o", "t", "o">>,
          <<"p", "i", "c", "t", "u", "r", "e">>,
          <<"s", "c", "r", "e", "e", "n", "s", "h", "o", "t">>,
          <<"j", "p", "g">>, <<"p", "n", "g">> }],
     [type |-> "audio", keywords |->
        { <<"a", "u", "d", "i", "o">>, <<"s", "o", "u", "n", "d">>,
          <<"m", "u", "s", "i", "c">>,
          <<"r", "e", "c", "o", "r", "d", "i", "n", "g">>, <<"m", "p", "3">>,
          <<"w", "a", "v">> }],
     [type |-> "video", keywords |->
        { <<"v", "i", "d", "e", "o">>, <<"m", "o", "v", "i", "e">>,
          <<"c", "l", "i", "p">>, <<"m", "p", "4">>, <<"m", "o", "v">> }],
     [type |-> "link", keywords |->
        { <<"l", "i", "n", "k">>, <<"u", "r", "l">>,
          <<"w", "e", "b", "s", "i", "t", "e">>,
          <<"w", "e", "b", "p", "a", "g", "e">>, <<"h", "t", "t", "p">> }] >>

\* extractKeywordsManually(query): { keywords: [...phrases, ...words], types }
extractKeywordsManually(query) ==
  LET cleaned == Trim(collapseWhitespace(removePhrasesFrom(toLowerCase(query), 1)))
      words == SelectSeq(split(cleaned), LAMBDA w : Len(w) > 2 /\ w \notin StopWords)
      phrases == IF Len(words) > 1 THEN <<join(words)>> ELSE <<>>
      detected == SelectSeq(TypeKeywords, LAMBDA e :
                    \E kw \in e.keywords : includes(toLowerCase(query), kw))
  IN [ keywords |-> phrases \o words,
       types |-> [k \in 1..Len(detected) |-> detected[k].type] ]

(***************************************************************************)
(* The record store                                                        *)
(***************************************************************************)
\* new Date(s) of a string that is not a date: Invalid Date
InvalidDate == 0 - 1

\* the value of a record's field as the list of strings $regex is tried on
\* (tags is an array: the condition holds if any element matches)
FieldStrings(r, field) ==
  CASE field = "title" -> <<r.title>>
    [] field = "geminiSummary" -> <<r.geminiSummary>>
    [] field = "content" -> <<r.content>>
    [] field = "tags" -> r.tags

\* one { field: { $regex, $options: 'i' } } condition on a record
CondMatches(r, cond) ==
  \E k \in 1..Len(FieldStrings(r, cond.field)) :
    RegexMatches(cond.regex, FieldStrings(r, cond.field)[k])

\* the four conditions built for one pattern
FourFields(re) ==
  << [field |-> "title", regex |-> re],
     [field |-> "geminiSummary", regex |-> re],
     [field |-> "content", regex |-> re],
     [field |-> "tags", regex |-> re] >>

\* patterns.flatMap(p => [four conditions on escape(p)])
RECURSIVE flatMapConds(_)
flatMapConds(res) ==
  IF res = <<>> THEN <<>> ELSE FourFields(Head(res)) \o flatMapConds(Tail(res))

\* the query object { user: u } before any other key is added
UserFilter(u) ==
  [ hasUser |-> TRUE, user |-> u, hasOr |-> FALSE, orConds |-> <<>>,
    hasType |-> FALSE, types |-> <<>>,
    gte |-> <<>>, lte |-> <<>>,
    hasTags |-> FALSE, tagsAll |-> <<>> ]

\* the record satisfies the query object: all its keys hold
MatchesFilter(r, f) ==
  /\ f.hasUser => r.user = f.user
  /\ f.hasOr => \E k \in 1..Len(f.orConds) : CondMatches(r, f.orConds[k])
  /\ f.hasType => r.type \in Range(f.types)
  /\ \A k \in 1..Len(f.gte) : r.createdAt >= f.gte[k]
  /\ \A k \in 1..Len(f.lte) : r.createdAt <= f.lte[k]
  /\ f.hasTags => \A k \in 1..Len(f.tagsAll) : f.tagsAll[k] \in Range(r.tags)

\* the store rejects the query object: an empty $or, a $regex that does not
\* compile, or a date bound that cannot be cast to a date
FilterRejected(f) ==
  \/ f.hasOr /\ f.orConds = <<>>
  \/ \E k \in 1..Len(f.orConds) : ~Compile(f.orConds[k].regex).ok
  \/ \E k \in 1..Len(f.gte) : f.gte[k] = InvalidDate
  \/ \E k \in 1..Len(f.lte) : f.lte[k] = InvalidDate

\* a comes before b under .sort({ createdAt: order })
Before(a, b, order) ==
  IF order = -1 THEN a.createdAt > b.createdAt ELSE a.createdAt < b.createdAt

\* merge of two sorted runs; on a tie the record of the first run goes first
RECURSIVE Merge(_, _, _)
Merge(a, b, order) ==
  IF a = <<>> THEN b
  ELSE IF b = <<>> THEN a
  ELSE IF Before(Head(b), Head(a), order)
       THEN <<Head(b)>> \o Merge(a, Tail(b), order)
       ELSE <<Head(a)>> \o Merge(Tail(a), b, order)

\* the records in sort order; records created at the same instant keep the
\* collection's natural (insertion) order
RECURSIVE SortRecords(_, _)
SortRecords(recs, order) ==
  IF Len(recs) <= 1 THEN recs
  ELSE LET half == Len(recs) \div 2 IN
       Merge(SortRecords(SubSeq(recs, 1, half), order),
             SortRecords(SubSeq(recs, half + 1, Len(recs)), order), order)

Min(a, b) == IF a <= b THEN a ELSE b

\* the text fields of a record that $regex conditions look at
TextOf(r) ==
  [title |-> r.title, geminiSummary |-> r.geminiSummary, content |-> r.content,
   tags |-> r.tags]

\* the records of the collection, in natural order, that satisfy the query object; each $regex
\* is compiled once and tried once on every distinct text of the collection
Matching(recs, f) ==
  LET res == [k \in 1..Len(f.orConds) |-> Compile(f.orConds[k].regex)]
      texts == {TextOf(recs[i]) : i \in 1..Len(recs)}
      hit == {t \in texts :
                \E k \in 1..Len(f.orConds) :
                  \E n \in 1..Len(FieldStrings(t, f.orConds[k].field)) :
                    CompiledMatches(res[k], FieldStrings(t, f.orConds[k].field)[n])}
  IN SelectSeq(recs, LAMBDA r :
        /\ f.hasUser => r.user = f.user
        /\ f.hasOr => TextOf(r) \in hit
        /\ f.hasType => r.type \in Range(f.types)
        /\ \A k \in 1..Len(f.gte) : r.createdAt >= f.gte[k]
        /\ \A k \in 1..Len(f.lte) : r.createdAt <= f.lte[k]
        /\ f.hasTags => \A k \in 1..Len(f.tagsAll) : f.tagsAll[k] \in Range(r.tags))

\* a find that sorts the other way round
FindAscending(recs, f, order, skip, limit) ==
  LET all == SortRecords(Matching(recs, f), 0 - order)
  IN SubSeq(all, skip + 1, Min(Len(all), skip + limit))

\* Record.find(f).sort({ createdAt: order }).skip(skip).limit(limit)
Find(recs, f, order, skip, limit) ==
  LET all == SortRecords(Matching(recs, f), order)
  IN SubSeq(all, skip + 1, Min(Len(all), skip + limit))

\* Record.countDocuments(f)
countDocuments(recs, f) == Len(Matching(recs, f))

\* the summary the AI service writes for a text: the model only keeps which
\* text it was written from
AiSummary(text) == <<"A", "I", ":">> \o text

\* text.split(sep)[0]: the text up to the first occurrence of sep
firstPiece(text, sep) ==
  LET at == { i \in 1..Len(text) : StartsAt(text, i, sep) } IN
  IF at = {} THEN text
  ELSE SubSeq(text, 1, (CHOOSE i \in at : \A j \in at : i <= j) - 1)

\* substring(0, 200) of the fallback summary
SummaryCut == 200

\* extractSummaryFromText(text, type): the answer of the AI service, or in
\* its catch block SUMMARY: and the first paragraph of the text, cut
extractSummaryFromText(text, aiFails) ==
  IF ~aiFails THEN AiSummary(text)
  ELSE LET paragraph == firstPiece(text, <<"\n", "\n">>)
           firstParagraph == IF paragraph # <<>> THEN paragraph
                             ELSE firstPiece(text, <<".">>)
       IN <<"S", "U", "M", "M", "A", "R", "Y", ":", " ">>
            \o SubSeq(firstParagraph, 1, Min(SummaryCut, Len(firstParagraph)))
            \o (IF Len(firstParagraph) > SummaryCut THEN <<".", ".", ".">> ELSE <<>>)

(***************************************************************************)
(* Inputs of the model: users, strings, stored records, request bodies and *)
(* answers of the AI service                                               *)
(***************************************************************************)
Users == {"A", "B"}

S_abc == <<"a", ".", "b", "*", "c">>
S_aXbYYYc == <<"a", "X", "b", "Y", "Y", "Y", "c">>
S_aXc == <<"a", "X", "c">>
S_ac == <<"a", ".", "c">>
S_doc == <<"d", "o", "c">>
S_DocZz == <<"D", "o", "c", " ", "z", "z">>
S_zz == <<"z", "z">>
S_paren == <<"(">>
S_blank == <<" ", "\t">>
S_padded == <<" ", "d", "o", "c", " ">>
S_keepsonStructure ==
  <<"k", "e", "e", "p", "s", "o", "n", " ", "s", "t", "r", "u", "c", "t", "u", "r", "e">>
S_KeepsonNotes ==
  <<"K", "e", "e", "p", "s", "o", "n", " ", "S", "y", "s", "t", "e", "m", " ",
    "S", "t", "r", "u", "c", "t", "u", "r", "e", " ", "N", "o", "t", "e", "s">>
S_summary == <<"s", "u", "m">>
S_twoBlanks == <<"z", "z", " ", " ", "z", "z">>
S_tabbed == <<"z", "\t", "z">>

\* a stored Record document (models/Record schema; metadata and updatedAt
\* play no part in search and are left out)
Rec(id, u, ty, title, tags, t) ==
  [ id |-> id, user |-> u, type |-> ty, title |-> title,
    geminiSummary |-> S_summary, content |-> <<>>, tags |-> tags,
    fileUrl |-> <<>>, cloudinaryPublicId |-> <<>>, createdAt |-> t ]

\* uploadResult.public_id and uploadResult.secure_url of the n-th upload: the
\* blob store names every file it takes differently
PublicId(n) == [k \in 1..n |-> "f"]
SecureUrl(publicId) == <<"h", "/">> \o publicId

\* a stored record with a file
FileRec(id, u, ty, title, t) ==
  [Rec(id, u, ty, title, <<>>, t) EXCEPT !.fileUrl = SecureUrl(PublicId(id)),
                                         !.cloudinaryPublicId = PublicId(id)]

\* number of records of user A in the large initial store
BigStoreSize == 45

StoreEscape ==
  << Rec(1, "A", "note", S_abc, <<>>, 1),
     Rec(2, "A", "note", S_aXbYYYc, <<>>, 2),
     Rec(3, "B", "note", S_abc, <<>>, 2) >>

StoreWild == StoreEscape \o << Rec(4, "A", "link", S_aXc, <<>>, 3),
                               Rec(5, "B", "link", S_aXc, <<>>, 3) >>

StoreKeepson ==
  << Rec(1, "A", "note", S_KeepsonNotes, <<>>, 1),
     Rec(2, "B", "note", S_KeepsonNotes, <<>>, 1),
     Rec(3, "A", "image", S_zz, <<S_doc>>, 2),
     Rec(4, "A", "note", S_doc, <<>>, 2),
     Rec(5, "B", "note", S_doc, <<S_doc>>, 3) >>

StoreBig ==
  [i \in 1..BigStoreSize |-> Rec(i, "A", "note", S_doc, <<>>, i)]
    \o << Rec(BigStoreSize + 1, "B", "note", S_doc, <<>>, BigStoreSize + 1) >>

InitialStores == {StoreEscape, StoreWild, StoreKeepson, StoreBig}

\* stores with file records, for the record operations
StoreFiles ==
  << Rec(1, "A", "note", S_doc, <<>>, 1),
     FileRec(2, "A", "image", S_zz, 2),
     Rec(3, "B", "link", S_aXc, <<>>, 2),
     FileRec(4, "B", "audio", S_abc, 3) >>

StoreNotes ==
  << Rec(1, "A", "note", S_abc, <<>>, 1),
     Rec(2, "A", "link", S_doc, <<>>, 1) >>

RecordStores == {StoreFiles, StoreNotes}

\* the public ids the records of a store refer to
PublicIdsOf(recs) ==
  { recs[i].cloudinaryPublicId : i \in 1..Len(recs) } \ {<<>>}

MaxOf(S) == CHOOSE x \in S : \A y \in S : y <= x

\* req.body of POST /api/search
NaturalBodies ==
  { [hasQuery |-> FALSE, query |-> <<>>] }
    \cup { [hasQuery |-> TRUE, query |-> q] :
             q \in { <<>>, S_blank, S_padded, S_abc, S_ac, S_doc, S_DocZz,
                     S_keepsonStructure, S_zz, S_paren, S_tabbed } }

\* a date string of a request or of the AI service; new Date(s)
DateString(t) == [valid |-> TRUE, t |-> t]
MalformedDate == [valid |-> FALSE, t |-> 0]
NewDate(ds) == IF ds.valid THEN ds.t ELSE InvalidDate

\* the parsed answer of processSearchQuery; badKeyword: the keywords array
\* holds a value that is not a string
Hints(hasK, ks, bad, ts, hasD, from, to) ==
  [ hasKeywords |-> hasK, keywords |-> ks, badKeyword |-> bad, types |-> ts,
    hasDateFilters |-> hasD, from |-> from, to |-> to ]

NoHints == Hints(FALSE, <<>>, FALSE, <<>>, FALSE, <<>>, <<>>)

\* the answers processSearchQuery gives in the model; "echo" returns the
\* query itself as the only keyword
OracleChoices ==
  {"nokeywords", "empty", "echo", "doc-note", "doc-image-from", "two-to",
   "doc-baddate", "twoblanks", "notstring"}

OracleAnswer(choice, query) ==
  CASE choice = "nokeywords" -> NoHints
    [] choice = "empty" -> Hints(TRUE, <<>>, FALSE, <<>>, FALSE, <<>>, <<>>)
    [] choice = "echo" -> Hints(TRUE, <<query>>, FALSE, <<>>, FALSE, <<>>, <<>>)
    [] choice = "doc-note" -> Hints(TRUE, <<S_doc>>, FALSE, <<"note">>, FALSE, <<>>, <<>>)
    [] choice = "doc-image-from" ->
         Hints(TRUE, <<S_doc>>, FALSE, <<"image">>, TRUE, <<DateString(2)>>, <<>>)
    [] choice = "two-to" ->
         Hints(TRUE, <<S_zz, S_keepsonStructure>>, FALSE, <<>>, TRUE, <<>>, <<DateString(2)>>)
    [] choice = "doc-baddate" ->
         Hints(TRUE, <<S_doc>>, FALSE, <<>>, TRUE, <<>>, <<MalformedDate>>)
    [] choice = "twoblanks" ->
         Hints(TRUE, <<S_twoBlanks>>, FALSE, <<>>, FALSE, <<>>, <<>>)
    [] OTHER -> Hints(TRUE, <<S_doc>>, TRUE, <<>>, FALSE, <<>>, <<>>)

\* the ways the call of the AI service inside processSearchQuery fails:
\* generateContent rejects (network error, timeout), or its text holds no
\* JSON object that parses
ServiceFailures == {"rejects", "unparseable"}

\* what processSearchQuery returns when the AI service call failed: the
\* keywords of extractKeywordsManually, dateFilters: null, and the detected
\* types only on the unparseable path
manualHints(failure, query) ==
  LET manual == extractKeywordsManually(query) IN
  Hints(TRUE, manual.keywords, FALSE,
        IF failure = "unparseable" THEN manual.types ELSE <<>>,
        FALSE, <<>>, <<>>)

\* req.body of POST /api/search/advanced; an absent key is the empty sequence
AdvBody(ks, ts, from, to, tags, limit, page) ==
  [ keywords |-> ks, types |-> ts, dateFrom |-> from, dateTo |-> to,
    tags |-> tags, limit |-> limit, page |-> page ]

AdvancedBodies ==
  { AdvBody(ks, <<>>, <<>>, <<>>, <<>>, l, pg) :
      ks \in {<<>>, <<S_doc>>}, l \in {<<>>, <<0>>, <<2>>}, pg \in {<<>>, <<0>>, <<2>>, <<3>>} }
    \cup
  { AdvBody(<<S_zz, S_abc>>, <<"note">>, <<>>, <<>>, <<>>, <<>>, <<>>),
    AdvBody(<<>>, <<>>, <<DateString(2)>>, <<>>, <<>>, <<>>, <<>>),
    AdvBody(<<>>, <<>>, <<>>, <<DateString(2)>>, <<S_doc>>, <<>>, <<>>),
    AdvBody(<<>>, <<>>, <<DateString(2)>>, <<DateString(2)>>, <<>>, <<>>, <<>>),
    AdvBody(<<>>, <<>>, <<MalformedDate>>, <<>>, <<>>, <<>>, <<>>),
    AdvBody(<<S_paren>>, <<>>, <<>>, <<>>, <<>>, <<>>, <<>>) }

(***************************************************************************)
(* State                                                                   *)
(***************************************************************************)
VARIABLES
  store,        \* the Record collection: its documents in insertion order
  nextId,       \* the next _id the store hands out
  now,          \* the clock behind Date.now
  mutations,    \* record mutations made so far by other requests
  pc,           \* where the search request in flight stands
  req,          \* the request in flight: user, body after the validators
  filter,       \* the query object of the store call in flight
  skip,         \* skip of advancedSearch
  searchParams, \* the answer of processSearchQuery, once it has returned
  records,      \* the page read by advancedSearch, between find and count
  resp,         \* the response sent for the request
  oracleCalls,  \* calls of processSearchQuery made by the request
  oracleThrew,  \* the call of processSearchQuery raised an error
  tier3Entered, \* the request has run generateAllSearchPatterns for Tier 3
  finds,        \* the store calls of the request, in order
  sent,         \* responses sent for the request
  serviceFailed, \* the AI service call inside processSearchQuery failed
  inflight,     \* the awaited calls of the request that have not settled
  generated,    \* the results of the calls of generateAllSearchPatterns
  blobs,        \* the public ids of the files held by the blob store
  lastOp        \* the last record operation: its request and its response

vars == << store, nextId, now, mutations, pc, req, filter, skip,
           searchParams, records, resp, oracleCalls, oracleThrew,
           tier3Entered, finds, sent, serviceFailed, inflight,
           generated, blobs, lastOp >>

NoRequest ==
  [ kind |-> "none", user |-> "A", hasQuery |-> FALSE, rawQuery |-> <<>>,
    query |-> <<>>, body |-> AdvBody(<<>>, <<>>, <<>>, <<>>, <<>>, <<>>, <<>>) ]

NoPagination ==
  [ currentPage |-> 0, totalPages |-> 0, totalRecords |-> 0,
    hasNextPage |-> FALSE, hasPreviousPage |-> FALSE ]

NoResponse ==
  [ status |-> 0, success |-> FALSE, error |-> "", searchType |-> "",
    hasProcessedQuery |-> FALSE, processedQuery |-> NoHints,
    records |-> <<>>, count |-> 0,
    hasPagination |-> FALSE, pagination |-> NoPagination ]

\* res.status(code).json({ success: false, error })
ErrorResponse(code, msg) == [NoResponse EXCEPT !.status = code, !.error = msg]

\* the success response of naturalSearch for a tier, without processedQuery
TierResponse(tier, recs) ==
  [NoResponse EXCEPT !.status = OK, !.success = TRUE, !.searchType = tier,
                     !.records = recs, !.count = Len(recs)]

\* a Tier 2 response that leaves processedQuery out
EnhancedResponseBare(recs, sp) == TierResponse("enhanced", recs)

\* the success response of Tier 2, with processedQuery: searchParams
EnhancedResponse(recs, sp) ==
  [TierResponse("enhanced", recs) EXCEPT !.hasProcessedQuery = TRUE,
                                         !.processedQuery = sp]

\* no record: what findOne resolves to when nothing matches
NoRecord == Rec(0, "A", "note", <<>>, <<>>, 0)

\* the request and the response of a record operation; target is the record
\* findOne gave, publicId the public_id of the file the request uploaded
RecordOp(op, status, u, id, target, hasContent, content, publicId) ==
  [ op |-> op, status |-> status, user |-> u, id |-> id, target |-> target,
    hasContent |-> hasContent, content |-> content, publicId |-> publicId ]

NoOp == RecordOp("none", 0, "A", 0, NoRecord, FALSE, <<>>, <<>>)

\* a handler that answers in its own catch and again in the outer one
SendTwice(r) == resp' = r /\ sent' = sent + 2

\* res.status(...).json(r): one more response goes out
Send(r) == resp' = r /\ sent' = sent + 1

\* the awaited call op settles and the calls in started begin
Settle(op, started) == inflight' = (inflight \ {op}) \cup started

\* one entry of the history of store calls
FindEntry(tier, failed, f, result) ==
  [ tier |-> tier, failed |-> failed, filter |-> f, snapshot |-> store,
    result |-> result ]

Init ==
  /\ store \in InitialStores
  /\ nextId = 1 + MaxOf({store[i].id : i \in 1..Len(store)})
  /\ now = MaxOf({store[i].createdAt : i \in 1..Len(store)})
  /\ mutations = 0
  /\ pc = "idle"
  /\ req = NoRequest
  /\ filter = UserFilter("A")
  /\ skip = 0
  /\ searchParams = NoHints
  /\ records = <<>>
  /\ resp = NoResponse
  /\ oracleCalls = 0
  /\ oracleThrew = FALSE
  /\ tier3Entered = FALSE
  /\ finds = <<>>
  /\ sent = 0
  /\ serviceFailed = FALSE
  /\ inflight = {}
  /\ generated = <<>>
  /\ blobs = {}
  /\ lastOp = NoOp

\* a request is accepted when none is in flight
FreshRequest ==
  /\ pc = "idle"
  /\ UNCHANGED << filter, skip, searchParams, records, oracleCalls, oracleThrew,
                  tier3Entered, finds, serviceFailed, inflight >>

\* the response has been sent: the request-scoped state is discarded
Finish ==
  /\ pc = "done"
  /\ pc' = "idle"
  /\ req' = NoRequest
  /\ resp' = NoResponse
  /\ filter' = UserFilter("A")
  /\ skip' = 0
  /\ searchParams' = NoHints
  /\ records' = <<>>
  /\ oracleCalls' = 0
  /\ oracleThrew' = FALSE
  /\ tier3Entered' = FALSE
  /\ finds' = <<>>
  /\ sent' = 0
  /\ serviceFailed' = FALSE
  /\ inflight' = {}
  /\ UNCHANGED << generated, blobs, lastOp, store, nextId, now, mutations >>

(***************************************************************************)
(* naturalSearch                                                           *)
(***************************************************************************)
\* searchValidators.basic after its trim(): isLength({ min: 1, max: 500 })
basicValid(q) == Len(q) >= MinQueryLen /\ Len(q) <= MaxQueryLen

\* !query || query.trim() === ''
queryMissing(hasQuery, query) == ~hasQuery \/ query = <<>> \/ Trim(query) = <<>>

\* directSearchQuery: { user, $or: [four fields, $regex: query] }
directSearchQuery(u, query) ==
  [UserFilter(u) EXCEPT !.hasOr = TRUE, !.orConds = FourFields(query)]

\* directResults.length > 0, off by one
directHitStrict(directResults) == Len(directResults) > 1

\* directResults.length > 0
directHit(directResults) == Len(directResults) > 0

\* the createdAt bounds of Tier 2: a bound is set for every truthy string
dateBound(hasD, strs) ==
  IF hasD THEN [k \in 1..Len(strs) |-> NewDate(strs[k])] ELSE <<>>

\* a Tier 2 query object that leaves the type restriction out
enhancedQueryAnyType(u, sp, query) ==
  LET allVariations == allVariationsOf(sp, query)
      escaped == [k \in 1..Len(allVariations) |-> escapeRegex(allVariations[k])]
  IN [UserFilter(u) EXCEPT
        !.hasOr = TRUE,
        !.orConds = flatMapConds(escaped),
        !.gte = dateBound(sp.hasDateFilters, sp.from),
        !.lte = dateBound(sp.hasDateFilters, sp.to)]

\* enhancedQuery: { user, $or over the escaped variations, type, createdAt }
enhancedQuery(u, sp, query) ==
  LET allVariations == allVariationsOf(sp, query)
      escaped == [k \in 1..Len(allVariations) |-> escapeRegex(allVariations[k])]
  IN [UserFilter(u) EXCEPT
        !.hasOr = TRUE,
        !.orConds = flatMapConds(escaped),
        !.hasType = Len(sp.types) > 0,
        !.types = IF Len(sp.types) > 0 THEN sp.types ELSE <<>>,
        !.gte = dateBound(sp.hasDateFilters, sp.from),
        !.lte = dateBound(sp.hasDateFilters, sp.to)]

\* a Tier 3 query object without the user key
fallbackQueryNoUser(u, query) ==
  LET searchTerms == generateAllSearchPatterns(query)
      escaped == [k \in 1..Len(searchTerms) |-> escapeRegex(searchTerms[k])]
  IN [UserFilter(u) EXCEPT !.hasUser = FALSE, !.hasOr = TRUE,
                           !.orConds = flatMapConds(escaped)]

\* fallbackQuery: { user, $or over the escaped generated patterns }
fallbackQuery(u, query) ==
  LET searchTerms == generateAllSearchPatterns(query)
      escaped == [k \in 1..Len(searchTerms) |-> escapeRegex(searchTerms[k])]
  IN [UserFilter(u) EXCEPT !.hasOr = TRUE, !.orConds = flatMapConds(escaped)]

\* POST /api/search: validate(searchValidators.basic), then the controller
RouteSearch(u, body) ==
  /\ FreshRequest
  /\ LET q == Trim(body.query) IN
     /\ req' = [NoRequest EXCEPT !.kind = "natural", !.user = u,
                                 !.hasQuery = body.hasQuery,
                                 !.rawQuery = body.query,
                                 !.query = q]
     /\ IF basicValid(q)
        THEN pc' = "naturalSearch" /\ UNCHANGED << resp, sent >>
        ELSE pc' = "done" /\ Send(ErrorResponse(BAD_REQUEST, "Validation failed"))
  /\ UNCHANGED << generated, blobs, lastOp, store, nextId, now, mutations >>

\* a naturalSearch that starts processSearchQuery together with the Tier 1
\* find instead of awaiting the find first
NaturalSearchBeginEager ==
  /\ pc = "naturalSearch"
  /\ IF queryMissing(req.hasQuery, req.query)
     THEN /\ pc' = "done"
          /\ Send(ErrorResponse(BAD_REQUEST, "Search query is required"))
          /\ UNCHANGED << filter, inflight >>
     ELSE /\ pc' = "tier1"
          /\ filter' = directSearchQuery(req.user, req.query)
          /\ inflight' = inflight \cup {"tier1", "oracle"}
          /\ UNCHANGED << resp, sent >>
  /\ UNCHANGED << generated, blobs, lastOp, store, nextId, now, mutations, req, skip, searchParams,
                  records, oracleCalls, oracleThrew, tier3Entered, finds,
                  serviceFailed >>
  \* (the eager call is counted when the Tier 1 find settles)

\* naturalSearch up to its first await: the guard on the query, then the
\* Tier 1 query object and Record.find
NaturalSearchBegin ==
  /\ pc = "naturalSearch"
  /\ IF queryMissing(req.hasQuery, req.query)
     THEN /\ pc' = "done"
          /\ Send(ErrorResponse(BAD_REQUEST, "Search query is required"))
          /\ UNCHANGED << filter, inflight >>
     ELSE /\ pc' = "tier1"
          /\ filter' = directSearchQuery(req.user, req.query)
          /\ inflight' = inflight \cup {"tier1"}
          /\ UNCHANGED << resp, sent >>
  /\ UNCHANGED << generated, blobs, lastOp, store, nextId, now, mutations, req, skip, searchParams,
                  records, oracleCalls, oracleThrew, tier3Entered, finds,
                  serviceFailed >>

\* the outer catch: the generic server error
ServerError == ErrorResponse(INTERNAL_SERVER_ERROR, "Internal server error")

\* the Tier 1 find settles: an error goes to the outer catch, a hit is the
\* direct response, no hit calls processSearchQuery
Tier1Complete(storeDown) ==
  /\ pc = "tier1"
  /\ IF storeDown \/ FilterRejected(filter)
     THEN /\ finds' = Append(finds, FindEntry("direct", TRUE, filter, <<>>))
          /\ Send(ServerError)
          /\ Settle("tier1", {})
          /\ pc' = "done"
          /\ UNCHANGED oracleCalls
     ELSE LET directResults == Find(store, filter, SORT_ORDER, 0, LIMIT) IN
          /\ finds' = Append(finds, FindEntry("direct", FALSE, filter, directResults))
          /\ IF directHit(directResults)
             THEN /\ Send(TierResponse("direct", directResults))
                  /\ Settle("tier1", {})
                  /\ pc' = "done"
                  /\ UNCHANGED oracleCalls
             ELSE /\ pc' = "oracle"
                  /\ oracleCalls' = oracleCalls + 1
                  /\ Settle("tier1", {"oracle"})
                  /\ UNCHANGED << resp, sent >>
  /\ UNCHANGED << generated, blobs, lastOp, store, nextId, now, mutations, req, filter, skip,
                  searchParams, records, oracleThrew, tier3Entered,
                  serviceFailed >>

\* catch (geminiError): Tier 3 builds its query object and calls Record.find
EnterTier3 ==
  /\ filter' = fallbackQuery(req.user, req.query)
  /\ tier3Entered' = TRUE
  /\ pc' = "tier3"

\* processSearchQuery returns: Tier 2 builds its patterns and query object
\* and calls Record.find; a keyword that is not a string makes
\* keyword.includes throw inside the try block
OracleReturn(choice) ==
  /\ pc = "oracle"
  /\ searchParams' = OracleAnswer(choice, req.query)
  /\ IF searchParams'.hasKeywords /\ Len(searchParams'.keywords) > 0 /\ searchParams'.badKeyword
     THEN EnterTier3 /\ Settle("oracle", {"tier3"})
     ELSE /\ filter' = enhancedQuery(req.user, searchParams', req.query)
          /\ pc' = "tier2"
          /\ Settle("oracle", {"tier2"})
          /\ UNCHANGED tier3Entered
  /\ UNCHANGED << generated, blobs, lastOp, store, nextId, now, mutations, req, skip, records, resp,
                  oracleCalls, oracleThrew, finds, sent, serviceFailed >>

\* the AI service call inside processSearchQuery fails: processSearchQuery
\* catches the failure and returns the manually extracted keywords, and
\* Tier 2 goes on with them
OracleServiceFails(failure) ==
  /\ pc = "oracle"
  /\ serviceFailed' = TRUE
  /\ searchParams' = manualHints(failure, req.query)
  /\ filter' = enhancedQuery(req.user, searchParams', req.query)
  /\ pc' = "tier2"
  /\ Settle("oracle", {"tier2"})
  /\ UNCHANGED << generated, blobs, lastOp, store, nextId, now, mutations, req, skip, records, resp,
                  oracleCalls, oracleThrew, tier3Entered, finds, sent >>

\* an OracleThrow whose error escapes to the outer catch
OracleThrowPropagates ==
  /\ pc = "oracle"
  /\ oracleThrew' = TRUE
  /\ Send(ErrorResponse(INTERNAL_SERVER_ERROR, "Internal server error"))
  /\ Settle("oracle", {})
  /\ pc' = "done"
  /\ UNCHANGED << generated, blobs, lastOp, store, nextId, now, mutations, req, filter, skip, searchParams,
                  records, oracleCalls, tier3Entered, finds, serviceFailed >>

\* an OracleThrow that calls processSearchQuery a second time before it
\* gives up
OracleThrowRetry ==
  /\ pc = "oracle"
  /\ oracleThrew' = TRUE
  /\ IF oracleCalls < 2
     THEN /\ oracleCalls' = oracleCalls + 1
          /\ UNCHANGED << filter, tier3Entered, pc, inflight >>
     ELSE /\ EnterTier3
          /\ Settle("oracle", {"tier3"})
          /\ UNCHANGED oracleCalls
  /\ UNCHANGED << generated, blobs, lastOp, store, nextId, now, mutations, req, skip, searchParams,
                  records, resp, finds, sent, serviceFailed >>

\* processSearchQuery throws
OracleThrow ==
  /\ pc = "oracle"
  /\ oracleThrew' = TRUE
  /\ EnterTier3
  /\ Settle("oracle", {"tier3"})
  /\ UNCHANGED << generated, blobs, lastOp, store, nextId, now, mutations, req, skip, searchParams,
                  records, resp, oracleCalls, finds, sent, serviceFailed >>

\* a Tier2Complete that goes on to Tier 3 when Tier 2 finds nothing
Tier2CompleteCascade(storeDown) ==
  /\ pc = "tier2"
  /\ IF storeDown \/ FilterRejected(filter)
     THEN /\ finds' = Append(finds, FindEntry("enhanced", TRUE, filter, <<>>))
          /\ EnterTier3
          /\ Settle("tier2", {"tier3"})
          /\ UNCHANGED << resp, sent >>
     ELSE LET enhancedResults == Find(store, filter, SORT_ORDER, 0, LIMIT) IN
          /\ finds' = Append(finds, FindEntry("enhanced", FALSE, filter, enhancedResults))
          /\ IF Len(enhancedResults) > 0
             THEN /\ Send(EnhancedResponse(enhancedResults, searchParams))
                  /\ Settle("tier2", {})
                  /\ pc' = "done"
                  /\ UNCHANGED << filter, tier3Entered >>
             ELSE /\ EnterTier3
                  /\ Settle("tier2", {"tier3"})
                  /\ UNCHANGED << resp, sent >>
  /\ UNCHANGED << generated, blobs, lastOp, store, nextId, now, mutations, req, skip, searchParams,
                  records, oracleCalls, oracleThrew, serviceFailed >>

\* the Tier 2 find settles inside the try block: an error is caught by
\* catch (geminiError), a result is the enhanced response whatever its size
Tier2Complete(storeDown) ==
  /\ pc = "tier2"
  /\ IF storeDown \/ FilterRejected(filter)
     THEN /\ finds' = Append(finds, FindEntry("enhanced", TRUE, filter, <<>>))
          /\ EnterTier3
          /\ Settle("tier2", {"tier3"})
          /\ UNCHANGED << resp, sent >>
     ELSE LET enhancedResults == Find(store, filter, SORT_ORDER, 0, LIMIT) IN
          /\ finds' = Append(finds, FindEntry("enhanced", FALSE, filter, enhancedResults))
          /\ Send(EnhancedResponse(enhancedResults, searchParams))
          /\ Settle("tier2", {})
          /\ pc' = "done"
          /\ UNCHANGED << filter, tier3Entered >>
  /\ UNCHANGED << generated, blobs, lastOp, store, nextId, now, mutations, req, skip, searchParams,
                  records, oracleCalls, oracleThrew, serviceFailed >>

\* a Tier 3 that saves the query it answered as a record of the user
Tier3CompleteSaving(storeDown) ==
  /\ pc = "tier3"
  /\ IF storeDown \/ FilterRejected(filter)
     THEN /\ finds' = Append(finds, FindEntry("fallback", TRUE, filter, <<>>))
          /\ Send(ServerError)
          /\ UNCHANGED << store, nextId >>
     ELSE LET fallbackResults == Find(store, filter, SORT_ORDER, 0, LIMIT) IN
          /\ finds' = Append(finds, FindEntry("fallback", FALSE, filter, fallbackResults))
          /\ Send(TierResponse("fallback", fallbackResults))
          /\ store' = Append(store, Rec(nextId, req.user, "note", req.query, <<>>, now))
          /\ nextId' = nextId + 1
  /\ Settle("tier3", {})
  /\ pc' = "done"
  /\ UNCHANGED << generated, blobs, lastOp, now, mutations, req, filter, skip,
                  searchParams, records, oracleCalls, oracleThrew, tier3Entered,
                  serviceFailed >>

\* the Tier 3 find settles inside the catch block: an error goes to the
\* outer catch, a result is the fallback response
Tier3Complete(storeDown) ==
  /\ pc = "tier3"
  /\ IF storeDown \/ FilterRejected(filter)
     THEN /\ finds' = Append(finds, FindEntry("fallback", TRUE, filter, <<>>))
          /\ Send(ServerError)
     ELSE LET fallbackResults == Find(store, filter, SORT_ORDER, 0, LIMIT) IN
          /\ finds' = Append(finds, FindEntry("fallback", FALSE, filter, fallbackResults))
          /\ Send(TierResponse("fallback", fallbackResults))
  /\ Settle("tier3", {})
  /\ pc' = "done"
  /\ UNCHANGED << generated, blobs, lastOp, store, nextId, now, mutations, req, filter, skip,
                  searchParams, records, oracleCalls, oracleThrew, tier3Entered,
                  serviceFailed >>

(***************************************************************************)
(* advancedSearch                                                          *)
(***************************************************************************)
\* an optional key of the body, or its default
OrDefault(opt, default) == IF opt = <<>> THEN default ELSE opt[1]

\* searchValidators.advanced: the optional keys that are present are checked
advancedValid(body) ==
  /\ \A k \in 1..Len(body.dateFrom) : body.dateFrom[k].valid
  /\ \A k \in 1..Len(body.dateTo) : body.dateTo[k].valid
  /\ \A k \in 1..Len(body.limit) : body.limit[k] >= MinLimit /\ body.limit[k] <= MaxLimit
  /\ \A k \in 1..Len(body.page) : body.page[k] >= MinPage

\* keywords.join('|')
RECURSIVE joinBar(_)
joinBar(keywords) ==
  IF keywords = <<>> THEN <<>>
  ELSE IF Len(keywords) = 1 THEN keywords[1]
  ELSE keywords[1] \o <<"|">> \o joinBar(Tail(keywords))

\* a query object whose upper bound is set only when there is no lower bound
advancedQueryEitherBound(u, body) ==
  LET re == joinBar(body.keywords) IN
  [UserFilter(u) EXCEPT
     !.hasOr = Len(body.keywords) > 0,
     !.orConds = IF Len(body.keywords) > 0
                 THEN << [field |-> "title", regex |-> re],
                         [field |-> "geminiSummary", regex |-> re],
                         [field |-> "content", regex |-> re] >>
                 ELSE <<>>,
     !.hasType = Len(body.types) > 0,
     !.types = body.types,
     !.gte = [k \in 1..Len(body.dateFrom) |-> NewDate(body.dateFrom[k])],
     !.lte = IF body.dateFrom # <<>> THEN <<>>
             ELSE [k \in 1..Len(body.dateTo) |-> NewDate(body.dateTo[k])],
     !.hasTags = Len(body.tags) > 0,
     !.tagsAll = body.tags]

\* the query object of advancedSearch
advancedQuery(u, body) ==
  LET re == joinBar(body.keywords) IN
  [UserFilter(u) EXCEPT
     !.hasOr = Len(body.keywords) > 0,
     !.orConds = IF Len(body.keywords) > 0
                 THEN << [field |-> "title", regex |-> re],
                         [field |-> "geminiSummary", regex |-> re],
                         [field |-> "content", regex |-> re] >>
                 ELSE <<>>,
     !.hasType = Len(body.types) > 0,
     !.types = body.types,
     !.gte = [k \in 1..Len(body.dateFrom) |-> NewDate(body.dateFrom[k])],
     !.lte = [k \in 1..Len(body.dateTo) |-> NewDate(body.dateTo[k])],
     !.hasTags = Len(body.tags) > 0,
     !.tagsAll = body.tags]

\* Math.ceil(total / limit)
ceilDiv(total, limit) == (total + limit - 1) \div limit

\* a pagination descriptor whose hasNextPage forgets the skipped records
paginationNoSkip(page, limit, sk, total, n) ==
  [ currentPage |-> page,
    totalPages |-> ceilDiv(total, limit),
    totalRecords |-> total,
    hasNextPage |-> n < total,
    hasPreviousPage |-> page > 1 ]

\* the pagination descriptor of the response
pagination(page, limit, sk, total, n) ==
  [ currentPage |-> page,
    totalPages |-> ceilDiv(total, limit),
    totalRecords |-> total,
    hasNextPage |-> sk + n < total,
    hasPreviousPage |-> page > 1 ]

\* POST /api/search/advanced: validate(searchValidators.advanced), then
\* the controller
RouteAdvanced(u, body) ==
  /\ FreshRequest
  /\ req' = [NoRequest EXCEPT !.kind = "advanced", !.user = u, !.body = body]
  /\ IF advancedValid(body)
     THEN pc' = "advancedSearch" /\ UNCHANGED << resp, sent >>
     ELSE pc' = "done" /\ Send(ErrorResponse(BAD_REQUEST, "Validation failed"))
  /\ UNCHANGED << generated, blobs, lastOp, store, nextId, now, mutations >>

\* advancedSearch up to its first await: the query object, skip, Record.find
AdvancedSearchBegin ==
  /\ pc = "advancedSearch"
  /\ filter' = advancedQuery(req.user, req.body)
  /\ skip' = (OrDefault(req.body.page, PAGE) - 1) * OrDefault(req.body.limit, LIMIT)
  /\ pc' = "advFind"
  /\ inflight' = inflight \cup {"advFind"}
  /\ UNCHANGED << generated, blobs, lastOp, store, nextId, now, mutations, req, searchParams,
                  records, resp, oracleCalls, oracleThrew, tier3Entered, finds,
                  sent, serviceFailed >>

\* the find of advancedSearch settles; then countDocuments is called
AdvancedFindComplete(storeDown) ==
  /\ pc = "advFind"
  /\ IF storeDown \/ FilterRejected(filter)
     THEN /\ finds' = Append(finds, FindEntry("advanced", TRUE, filter, <<>>))
          /\ Send(ServerError)
          /\ Settle("advFind", {})
          /\ pc' = "done"
          /\ UNCHANGED records
     ELSE LET page == Find(store, filter, SORT_ORDER, skip,
                           OrDefault(req.body.limit, LIMIT)) IN
          /\ finds' = Append(finds, FindEntry("advanced", FALSE, filter, page))
          /\ records' = page
          /\ pc' = "advCount"
          /\ Settle("advFind", {"advCount"})
          /\ UNCHANGED << resp, sent >>
  /\ UNCHANGED << generated, blobs, lastOp, store, nextId, now, mutations, req, filter, skip,
                  searchParams, oracleCalls, oracleThrew, tier3Entered,
                  serviceFailed >>

\* countDocuments settles and the response is sent
AdvancedCountComplete(storeDown) ==
  /\ pc = "advCount"
  /\ IF storeDown
     THEN /\ finds' = Append(finds, FindEntry("count", TRUE, filter, <<>>))
          /\ Send(ServerError)
     ELSE LET total == countDocuments(store, filter) IN
          /\ finds' = Append(finds, FindEntry("count", FALSE, filter, <<>>))
          /\ Send([NoResponse EXCEPT
                        !.status = OK, !.success = TRUE,
                        !.records = records, !.count = Len(records),
                        !.hasPagination = TRUE,
                        !.pagination =
                          pagination(OrDefault(req.body.page, PAGE),
                                     OrDefault(req.body.limit, LIMIT),
                                     skip, total, Len(records))])
  /\ Settle("advCount", {})
  /\ pc' = "done"
  /\ UNCHANGED << generated, blobs, lastOp, store, nextId, now, mutations, req, filter, skip,
                  searchParams, records, oracleCalls, oracleThrew, tier3Entered,
                  serviceFailed >>

(***************************************************************************)
(* Record operations of other requests                                     *)
(***************************************************************************)
\* createRecord for a record without a file whose title the user gives:
\* new Record({ user, type, title, tags, ... }).save(), createdAt: Date.now;
\* the clock has moved on since the last record was created
createRecord(u, ty, title, tags) ==
  /\ mutations < MaxMutations
  /\ mutations' = mutations + 1
  /\ now' = now + 1
  /\ store' = Append(store, Rec(nextId, u, ty, title, tags, now + 1))
  /\ nextId' = nextId + 1
  /\ lastOp' = RecordOp("create", CREATED, u, nextId, NoRecord, FALSE, <<>>, <<>>)
  /\ UNCHANGED << pc, req, filter, skip, searchParams, records, resp,
                  oracleCalls, oracleThrew, tier3Entered, finds, sent,
                  serviceFailed, inflight, generated, blobs >>

\* createRecord with req.file: cloudinaryService.uploadFile, the analysis of
\* the file (every failure of it is caught and replaced by a fixed summary or
\* title), new Record(...).save(), and in the outer catch
\* cloudinaryService.deleteFile, whose own failure is caught and logged
createRecordWithFile(u, ty, title, uploadFails, saveFails, cleanupFails) ==
  /\ mutations < MaxRecordOps
  /\ mutations' = mutations + 1
  /\ now' = now + 1
  /\ nextId' = nextId + 1
  /\ IF uploadFails
     THEN /\ UNCHANGED << store, blobs >>
          /\ lastOp' = RecordOp("create", BAD_REQUEST, u, nextId, NoRecord,
                                FALSE, <<>>, <<>>)
     ELSE LET publicId == PublicId(nextId) IN
          IF saveFails
          THEN /\ UNCHANGED store
               /\ blobs' = IF cleanupFails THEN blobs \cup {publicId} ELSE blobs
               /\ lastOp' = RecordOp("create", INTERNAL_SERVER_ERROR, u, nextId,
                                     NoRecord, FALSE, <<>>, publicId)
          ELSE /\ store' = Append(store, [FileRec(nextId, u, ty, title, now + 1)
                                            EXCEPT !.tags = <<>>])
               /\ blobs' = blobs \cup {publicId}
               /\ lastOp' = RecordOp("create", CREATED, u, nextId, NoRecord,
                                     FALSE, <<>>, publicId)
  /\ UNCHANGED << pc, req, filter, skip, searchParams, records, resp,
                  oracleCalls, oracleThrew, tier3Entered, finds, sent,
                  serviceFailed, inflight, generated >>

\* req.body of PUT /api/records/:id after recordValidators.update: an absent
\* key is the empty sequence; title and content have been trimmed
UpdateBody(title, content, tags) ==
  [ title |-> [k \in 1..Len(title) |-> Trim(title[k])],
    content |-> [k \in 1..Len(content) |-> Trim(content[k])],
    tags |-> tags ]

UpdateBodies ==
  { UpdateBody(<<S_aXc>>, <<>>, <<>>),
    UpdateBody(<<>>, <<S_zz>>, <<>>),
    UpdateBody(<<>>, <<>>, << <<S_zz>> >>),
    UpdateBody(<<S_abc>>, <<S_padded>>, << <<S_doc>> >>) }

\* an updateRecord that also hands the record over to the requesting user
updateRecordTakesOver(u, id, body, aiFails, storeDown) ==
  LET found == { i \in 1..Len(store) : store[i].id = id } IN
  /\ mutations < MaxRecordOps
  /\ mutations' = mutations + 1
  /\ found # {}
  /\ ~storeDown
  /\ LET i == CHOOSE k \in found : TRUE
         record == store[i]
     IN /\ store' = [store EXCEPT ![i] = [record EXCEPT !.user = u]]
        /\ lastOp' = RecordOp("update", OK, u, id, record, body.content # <<>>,
                              OrDefault(body.content, <<>>), <<>>)
  /\ UNCHANGED << nextId, now, blobs, pc, req, filter, skip, searchParams,
                  records, resp, oracleCalls, oracleThrew, tier3Entered, finds,
                  sent, serviceFailed, inflight, generated >>

\* updateRecord: Record.findOne({ _id, user }); the keys of the body that are
\* present are assigned; the summary is regenerated when content is present
\* and the record is a note or a link; record.save(). A store call that
\* fails ends the request with the server error and nothing is written
updateRecord(u, id, body, aiFails, storeDown) ==
  LET found == { i \in 1..Len(store) : store[i].id = id /\ store[i].user = u } IN
  /\ mutations < MaxRecordOps
  /\ mutations' = mutations + 1
  /\ IF storeDown
     THEN /\ UNCHANGED store
          /\ lastOp' = RecordOp("update", INTERNAL_SERVER_ERROR, u, id, NoRecord,
                                body.content # <<>>, OrDefault(body.content, <<>>), <<>>)
     ELSE IF found = {}
     THEN /\ UNCHANGED store
          /\ lastOp' = RecordOp("update", NOT_FOUND, u, id, NoRecord,
                                body.content # <<>>, OrDefault(body.content, <<>>), <<>>)
     ELSE LET i == CHOOSE k \in found : TRUE
              record == store[i]
              r1 == IF body.title # <<>>
                    THEN [record EXCEPT !.title = body.title[1]] ELSE record
              r2 == IF body.content # <<>>
                    THEN [r1 EXCEPT !.content = body.content[1]] ELSE r1
              r3 == IF body.tags # <<>> THEN [r2 EXCEPT !.tags = body.tags[1]] ELSE r2
              r4 == IF body.content # <<>> /\ record.type \in {"note", "link"}
                    THEN [r3 EXCEPT !.geminiSummary =
                                      extractSummaryFromText(body.content[1], aiFails)]
                    ELSE r3
          IN /\ store' = [store EXCEPT ![i] = r4]
             /\ lastOp' = RecordOp("update", OK, u, id, record, body.content # <<>>,
                                   OrDefault(body.content, <<>>), <<>>)
  /\ UNCHANGED << nextId, now, blobs, pc, req, filter, skip, searchParams,
                  records, resp, oracleCalls, oracleThrew, tier3Entered, finds,
                  sent, serviceFailed, inflight, generated >>

\* deleteRecord: Record.findOne({ _id, user }), cloudinaryService.deleteFile
\* when the record has a file (a failure of it is caught and logged), then
\* record.deleteOne()
deleteRecord(u, id) ==
  /\ mutations < MaxMutations
  /\ \E i \in 1..Len(store) :
       /\ store[i].id = id /\ store[i].user = u
       /\ \E fileGone \in BOOLEAN :
            blobs' = IF fileGone THEN blobs \ {store[i].cloudinaryPublicId} ELSE blobs
       /\ lastOp' = RecordOp("delete", OK, u, id, store[i], FALSE, <<>>, <<>>)
  /\ store' = SelectSeq(store, LAMBDA r : ~(r.id = id /\ r.user = u))
  /\ mutations' = mutations + 1
  /\ UNCHANGED << nextId, now, pc, req, filter, skip, searchParams,
                  records, resp, oracleCalls, oracleThrew, tier3Entered, finds,
                  sent, serviceFailed, inflight, generated >>

\* the _id values of the delete requests of the model
DeleteIds == {1, 4, BigStoreSize}

Next ==
  \/ \E u \in Users, body \in NaturalBodies : RouteSearch(u, body)
  \/ NaturalSearchBegin
  \/ \E storeDown \in BOOLEAN : Tier1Complete(storeDown)
  \/ \E choice \in OracleChoices : OracleReturn(choice)
  \/ \E failure \in ServiceFailures : OracleServiceFails(failure)
  \/ OracleThrow
  \/ \E storeDown \in BOOLEAN : Tier2Complete(storeDown)
  \/ \E storeDown \in BOOLEAN : Tier3Complete(storeDown)
  \/ \E u \in Users, body \in AdvancedBodies : RouteAdvanced(u, body)
  \/ AdvancedSearchBegin
  \/ \E storeDown \in BOOLEAN : AdvancedFindComplete(storeDown)
  \/ \E storeDown \in BOOLEAN : AdvancedCountComplete(storeDown)
  \/ Finish
  \/ \E u \in Users : createRecord(u, "note", S_doc, <<>>)
  \/ \E u \in Users, id \in DeleteIds : deleteRecord(u, id)

Spec == Init /\ [][Next]_vars

(***************************************************************************)
(* Pattern generation on its own: a query, calls of                        *)
(* generateAllSearchPatterns on it, and other requests in between          *)
(***************************************************************************)
\* words in a query, and calls of the generator on it
MaxWords == 3
MaxCalls == 2

S_is == <<"i", "s">>
S_it == <<"i", "t">>
S_ok == <<"o", "k">>
S_Note == <<"N", "o", "t", "e">>
S_isItOk == <<"i", "s", " ", "i", "t", " ", "o", "k">>

PatternWords == {S_is, S_it, S_ok, S_doc, S_Note}

\* the queries: up to MaxWords words with a blank between them, and three
\* queries with other whitespace
PatternQueries ==
  { join(ws) : ws \in UNION { [1..n -> PatternWords] : n \in 1..MaxWords } }
    \cup { S_twoBlanks, S_tabbed, S_keepsonStructure }

\* no request in flight and nothing recorded
Quiet ==
  /\ mutations = 0
  /\ pc = "idle"
  /\ filter = UserFilter("A")
  /\ skip = 0
  /\ searchParams = NoHints
  /\ records = <<>>
  /\ resp = NoResponse
  /\ oracleCalls = 0
  /\ oracleThrew = FALSE
  /\ tier3Entered = FALSE
  /\ finds = <<>>
  /\ sent = 0
  /\ serviceFailed = FALSE
  /\ inflight = {}
  /\ generated = <<>>
  /\ lastOp = NoOp

PatternInit ==
  /\ Quiet
  /\ store = StoreEscape
  /\ nextId = 1 + MaxOf({store[i].id : i \in 1..Len(store)})
  /\ now = MaxOf({store[i].createdAt : i \in 1..Len(store)})
  /\ blobs = {}
  /\ \E q \in PatternQueries :
       req = [NoRequest EXCEPT !.kind = "patterns", !.query = q]

\* const searchTerms = this.generateAllSearchPatterns(query): one call
GeneratePatterns ==
  /\ req.kind = "patterns"
  /\ Len(generated) < MaxCalls
  /\ generated' = Append(generated,
                         [ query |-> req.query,
                           patterns |-> generateAllSearchPatterns(req.query),
                           at |-> mutations ])
  /\ UNCHANGED << store, nextId, now, mutations, pc, req, filter, skip,
                  searchParams, records, resp, oracleCalls, oracleThrew,
                  tier3Entered, finds, sent, serviceFailed, inflight, blobs,
                  lastOp >>

PatternNext ==
  \/ GeneratePatterns
  \/ \E u \in Users : createRecord(u, "note", S_doc, <<>>)
  \/ \E u \in Users, id \in DeleteIds : deleteRecord(u, id)

PatternSpec == PatternInit /\ [][PatternNext]_vars

(***************************************************************************)
(* The record operations on their own                                      *)
(***************************************************************************)
RecordInit ==
  /\ Quiet
  /\ store \in RecordStores
  /\ nextId = 1 + MaxOf({store[i].id : i \in 1..Len(store)})
  /\ now = MaxOf({store[i].createdAt : i \in 1..Len(store)})
  /\ blobs = PublicIdsOf(store)
  /\ req = NoRequest

\* the _id values of the update requests of the model
UpdateIds == {1, 2, 4}

RecordNext ==
  \/ \E u \in Users : createRecord(u, "note", S_doc, <<>>)
  \/ \E u \in Users, uploadFails \in BOOLEAN, saveFails \in BOOLEAN,
        cleanupFails \in BOOLEAN :
       createRecordWithFile(u, "image", S_doc, uploadFails, saveFails, cleanupFails)
  \/ \E u \in Users, id \in UpdateIds, body \in UpdateBodies,
        aiFails \in BOOLEAN, storeDown \in BOOLEAN :
       updateRecord(u, id, body, aiFails, storeDown)
  \/ \E u \in Users, id \in DeleteIds : deleteRecord(u, id)

RecordSpec == RecordInit /\ [][RecordNext]_vars

(***************************************************************************)
(* Properties                                                              *)
(***************************************************************************)
NaturalDone == pc = "done" /\ req.kind = "natural"
NaturalSuccess == NaturalDone /\ resp.success
AdvancedSuccess == pc = "done" /\ req.kind = "advanced" /\ resp.success

\* the k-th store call of the request was made and returned these records
FindReturned(k, tier) ==
  Len(finds) >= k /\ finds[k].tier = tier /\ ~finds[k].failed

\* C1: once the Tier 1 query of a request has returned at least one record,
\* the request is answered with searchType direct and processSearchQuery is
\* not called by that request
C1_DirectHitSkipsOracle ==
  (FindReturned(1, "direct") /\ Len(finds[1].result) >= 1)
    => /\ pc = "done"
       /\ resp.success /\ resp.searchType = "direct"
       /\ resp.records = finds[1].result
       /\ oracleCalls = 0

C1_Witness ==
  /\ NaturalDone /\ FindReturned(1, "direct")
  /\ Len(finds[1].result) = 1
  /\ resp.searchType = "direct" /\ oracleCalls = 0

\* the Tier 3 query object as the source builds it: the user, and the four
\* fields against each escaped pattern of generateAllSearchPatterns(query)
PatternsOnlyFilter(u, query) ==
  LET ps == generateAllSearchPatterns(query) IN
  [ hasUser |-> TRUE, user |-> u, hasOr |-> TRUE,
    orConds |-> flatMapConds([k \in 1..Len(ps) |-> escapeRegex(ps[k])]),
    hasType |-> FALSE, types |-> <<>>, gte |-> <<>>, lte |-> <<>>,
    hasTags |-> FALSE, tagsAll |-> <<>> ]

\* the request is answered with the fallback tier, from a store query built
\* from the generated patterns only
FallbackAnswer ==
  /\ resp.status = OK /\ resp.success /\ resp.searchType = "fallback"
  /\ Len(finds) = 2 /\ finds[2].tier = "fallback" /\ ~finds[2].failed
  /\ finds[2].filter = PatternsOnlyFilter(req.user, req.query)
  /\ resp.records = finds[2].result
  /\ resp.count = Len(resp.records)

\* C2 as stated: a request whose Tier 1 query returned nothing and whose
\* call of processSearchQuery threw always ends with the fallback response
C2_Original ==
  (NaturalDone /\ oracleThrew /\ FindReturned(1, "direct") /\ finds[1].result = <<>>)
    => FallbackAnswer

\* C2 as amended: such a request ends with the fallback response whenever
\* its Tier 3 store query succeeds, and with the generic server error, raised
\* by the store and not by the oracle, when the Tier 3 store query fails
C2_OracleThrowFallsBack ==
  (NaturalDone /\ oracleThrew /\ FindReturned(1, "direct") /\ finds[1].result = <<>>)
    => /\ Len(finds) = 2 /\ finds[2].tier = "fallback"
       /\ IF finds[2].failed THEN resp = ServerError ELSE FallbackAnswer

C2_Witness ==
  /\ NaturalDone /\ oracleThrew /\ FallbackAnswer
  /\ Len(resp.records) >= 1

\* C3: when the oracle has answered and the Tier 2 query has returned no
\* record, the request is answered with searchType enhanced and count 0, and
\* neither the Tier 3 patterns nor a Tier 3 store query are made
C3_EnhancedZeroIsFinal ==
  (FindReturned(2, "enhanced") /\ finds[2].result = <<>>)
    => /\ pc = "done"
       /\ resp.success /\ resp.searchType = "enhanced"
       /\ resp.count = 0 /\ resp.records = <<>>
       /\ ~tier3Entered
       /\ Len(finds) = 2

C3_Witness ==
  /\ NaturalDone /\ ~oracleThrew /\ oracleCalls = 1
  /\ FindReturned(1, "direct") /\ finds[1].result = <<>>
  /\ FindReturned(2, "enhanced") /\ finds[2].result = <<>>
  /\ resp.searchType = "enhanced" /\ resp.count = 0

\* C4: every record in a response of naturalSearch or advancedSearch, and
\* in the page advancedSearch holds before it answers, belongs to the user
\* who made the request
C4_OwnerIsolation ==
  /\ \A k \in 1..Len(resp.records) : resp.records[k].user = req.user
  /\ \A k \in 1..Len(records) : records[k].user = req.user

\* a response with a record, from a store where another user's record has
\* the same title, for each kind of answer
C4_Witness ==
  /\ NaturalSuccess /\ resp.searchType = "fallback"
  /\ Len(resp.records) >= 1
  /\ \E i \in 1..Len(finds[2].snapshot) :
       /\ finds[2].snapshot[i].user # req.user
       /\ finds[2].snapshot[i].title = resp.records[1].title

\* C5 as stated: a request of naturalSearch in which a store query failed
\* ends with the generic server error
C5_StoreFailureIsServerError ==
  (NaturalDone /\ \E k \in 1..Len(finds) : finds[k].failed) => resp = ServerError

\* C6: a success response of naturalSearch has one of the three tier values
\* and carries processedQuery exactly when the tier is enhanced
C6_TierAndHints ==
  NaturalSuccess
    => /\ resp.searchType \in {"direct", "enhanced", "fallback"}
       /\ resp.hasProcessedQuery <=> resp.searchType = "enhanced"
       /\ resp.hasProcessedQuery => resp.processedQuery = searchParams

C6_Witness ==
  /\ NaturalSuccess /\ resp.searchType = "enhanced"
  /\ resp.hasProcessedQuery /\ resp.processedQuery.hasKeywords

\* the matching records the last store call of the request chose from
LastMatching == Matching(finds[Len(finds)].snapshot, finds[Len(finds)].filter)

\* C7: the records of a success response of naturalSearch are records that
\* matched the tier's query object, newest first, at most LIMIT of them and
\* as many as LIMIT allows, and no matching record left out is newer than
\* one that is returned
C7_NewestFirstCapped ==
  NaturalSuccess
    => LET M == LastMatching
           R == resp.records
       IN /\ Len(R) = Min(LIMIT, Len(M))
          /\ \A k \in 1..Len(R) : \E i \in 1..Len(M) : M[i] = R[k]
          /\ \A k \in 1..(Len(R) - 1) : R[k].createdAt >= R[k + 1].createdAt
          /\ \A k \in 1..Len(R) : \A j \in 1..Len(R) : R[k].id = R[j].id => k = j
          /\ \A i \in 1..Len(M) :
               (\A k \in 1..Len(R) : R[k].id # M[i].id)
                 => \A k \in 1..Len(R) : M[i].createdAt <= R[k].createdAt

C7_Witness ==
  /\ NaturalSuccess /\ resp.searchType = "fallback"
  /\ Len(resp.records) = LIMIT
  /\ Len(LastMatching) > LIMIT
  /\ resp.records[1].createdAt > resp.records[LIMIT].createdAt

\* the query of the body is missing, empty or made of whitespace only
BlankQuery == ~req.hasQuery \/ \A i \in 1..Len(req.rawQuery) : IsSpace(req.rawQuery[i])

\* C8: a request of naturalSearch whose query is missing, empty or only
\* whitespace is answered with status 400 and no tier, without any store
\* query and without a call of processSearchQuery
C8_BlankQueryRejected ==
  (req.kind = "natural" /\ BlankQuery)
    => /\ pc = "done"
       /\ resp.status = BAD_REQUEST /\ ~resp.success
       /\ resp.searchType = ""
       /\ finds = <<>> /\ oracleCalls = 0 /\ ~tier3Entered

C8_Witness ==
  /\ NaturalDone /\ req.hasQuery /\ Len(req.rawQuery) >= 1 /\ BlankQuery
  /\ resp.status = BAD_REQUEST

\* the patterns, before escaping, of the tier that answered the request
AnsweringPatterns ==
  CASE resp.searchType = "direct" -> <<req.query>>
    [] resp.searchType = "enhanced" -> allVariationsOf(searchParams, req.query)
    [] OTHER -> generateAllSearchPatterns(req.query)

\* the record holds the term as a literal substring of one of the four fields
LiteralHit(r, term) ==
  \/ ContainsLiteral(r.title, term)
  \/ ContainsLiteral(r.geminiSummary, term)
  \/ ContainsLiteral(r.content, term)
  \/ \E n \in 1..Len(r.tags) : ContainsLiteral(r.tags[n], term)

\* C9 as stated: every record of a success response of naturalSearch holds
\* one of the answering tier's patterns literally; for the query a.b*c no
\* record titled aXbYYYc is returned, and the user's records titled a.b*c are
\* all returned whenever the query is among the answering tier's patterns
C9_LiteralMatching ==
  NaturalSuccess
    => LET ps == AnsweringPatterns
           snap == finds[Len(finds)].snapshot
       IN /\ \A k \in 1..Len(resp.records) :
               \E n \in 1..Len(ps) : LiteralHit(resp.records[k], ps[n])
          /\ req.query = S_abc
               => /\ \A k \in 1..Len(resp.records) : resp.records[k].title # S_aXbYYYc
                  /\ (\E n \in 1..Len(ps) : ps[n] = S_abc)
                       => \A i \in 1..Len(snap) :
                            (snap[i].user = req.user /\ snap[i].title = S_abc)
                              => \E k \in 1..Len(resp.records) : resp.records[k] = snap[i]

\* C10: the pagination descriptor of a success response of advancedSearch,
\* for total the count the store returned: currentPage is the page asked
\* for, totalPages is the least number of pages of limit records that hold
\* total records, hasNextPage is skip + records.length < total and
\* hasPreviousPage is page > 1; with total 45 and limit 20, page 1 has 3
\* pages, a next page and no previous page, and page 3, read from a store
\* that held the same 45 matching records, has 5 records, no next page and a
\* previous page
C10_Pagination ==
  AdvancedSuccess
    => LET page == OrDefault(req.body.page, PAGE)
           limit == OrDefault(req.body.limit, LIMIT)
           sk == (page - 1) * limit
           atFind == Len(Matching(finds[1].snapshot, finds[1].filter))
           total == Len(Matching(finds[2].snapshot, finds[2].filter))
           P == resp.pagination
       IN /\ resp.hasPagination
          /\ resp.records = finds[1].result
          /\ P.currentPage = page
          /\ P.totalRecords = total
          /\ P.totalPages >= 0
          /\ P.totalPages * limit >= total
          /\ (P.totalPages - 1) * limit < total
          /\ P.hasNextPage <=> (sk + Len(resp.records) < total)
          /\ P.hasPreviousPage <=> (page > 1)
          /\ (total = 45 /\ limit = 20 /\ page = 1)
               => P.totalPages = 3 /\ P.hasNextPage /\ ~P.hasPreviousPage
          /\ (total = 45 /\ limit = 20 /\ page = 3 /\ atFind = total)
               => /\ Len(resp.records) = 5
                  /\ P.totalPages = 3 /\ ~P.hasNextPage /\ P.hasPreviousPage

C10_Witness ==
  /\ AdvancedSuccess
  /\ resp.pagination.totalRecords = 45
  /\ OrDefault(req.body.limit, LIMIT) = 20
  /\ resp.pagination.currentPage = 3
  /\ Len(resp.records) = 5
  /\ resp.pagination.totalPages = 3
  /\ ~resp.pagination.hasNextPage /\ resp.pagination.hasPreviousPage

\* no store call of the request has failed
NoStoreFailure == \A k \in 1..Len(finds) : ~finds[k].failed

\* C11 as stated: a request whose AI service call failed (it rejected, timed
\* out or answered with text that does not parse), and none of whose store
\* calls failed, is answered with the fallback tier after Tier 3 has run, and
\* not with the enhanced tier
C11_ServiceFailureFallsBack ==
  (NaturalDone /\ serviceFailed /\ NoStoreFailure)
    => /\ resp.success /\ resp.searchType = "fallback"
       /\ tier3Entered

\* the response is one of the three kinds naturalSearch sends
OneOfThreeResponses ==
  \/ resp.status = BAD_REQUEST /\ ~resp.success /\ resp.searchType = ""
  \/ resp.status = OK /\ resp.success
       /\ resp.searchType \in {"direct", "enhanced", "fallback"}
  \/ resp = ServerError

\* at most one response per request; none while the handler is still
\* running, exactly one of the three kinds once it has ended; an error of the
\* Tier 1 find or of the Tier 3 find, which no inner handler catches, ends
\* the request with the generic server error
OneResponse ==
  req.kind = "natural"
    => /\ sent <= 1
       /\ pc # "done" => sent = 0 /\ resp = NoResponse
       /\ pc = "done" => sent = 1 /\ OneOfThreeResponses
       /\ (pc = "done" /\ \E k \in 1..Len(finds) :
                            finds[k].failed /\ finds[k].tier \in {"direct", "fallback"})
            => resp = ServerError

\* the handler's control points in the order it passes them
Rank(p) ==
  CASE p = "naturalSearch" -> 1
    [] p = "tier1" -> 2
    [] p = "oracle" -> 3
    [] p = "tier2" -> 4
    [] p = "tier3" -> 5
    [] p = "done" -> 6
    [] OTHER -> 0

\* the handler is between its first statement and its response
Running == pc \in {"naturalSearch", "tier1", "oracle", "tier2", "tier3"}

C13_SearchLeavesStoreUnchanged ==
  [][pc' # pc => (store' = store /\ nextId' = nextId)]_vars

C13_Witness ==
  /\ NaturalSuccess /\ resp.searchType = "fallback" /\ Len(finds) = 3
  /\ \A k \in 1..Len(finds) : finds[k].snapshot = store
  /\ Len(resp.records) >= 1

\* C14 as stated: a request answered with the fallback tier is one whose
\* call of processSearchQuery raised an error
C14_FallbackOnlyAfterOracleError ==
  (NaturalDone /\ resp.success /\ resp.searchType = "fallback") => oracleThrew

\* C15: the tiers of one request run one after the other: at most one
\* awaited call is in flight; processSearchQuery is in flight only after the
\* Tier 1 find has returned no record; the Tier 2 find and the Tier 3 find
\* are in flight only after the one call of processSearchQuery has settled
C15_TiersInSequence ==
  req.kind = "natural"
    => /\ Cardinality(inflight) <= 1
       /\ "tier1" \in inflight => finds = <<>> /\ oracleCalls = 0
       /\ "oracle" \in inflight
            => /\ Len(finds) = 1 /\ FindReturned(1, "direct")
               /\ finds[1].result = <<>>
       /\ (inflight \cap {"tier2", "tier3"} # {})
            => /\ oracleCalls = 1 /\ "oracle" \notin inflight
               /\ FindReturned(1, "direct") /\ finds[1].result = <<>>
       /\ "tier3" \in inflight
            => \/ Len(finds) = 1
               \/ Len(finds) = 2 /\ finds[2].tier = "enhanced"

C15_Witness ==
  /\ req.kind = "natural" /\ inflight = {"tier3"}
  /\ Len(finds) = 2 /\ finds[2].tier = "enhanced" /\ finds[2].failed
  /\ oracleCalls = 1

\* the store calls of the request made for a tier
FindsOf(tier) == {k \in 1..Len(finds) : finds[k].tier = tier}

\* C16: within one request processSearchQuery is called at most once and
\* each tier's store query is run at most once: a failed call is not retried
C16_SingleAttempt ==
  req.kind = "natural"
    => /\ oracleCalls <= 1
       /\ \A tier \in {"direct", "enhanced", "fallback"} :
            Cardinality(FindsOf(tier)) <= 1
       /\ Len(finds) <= 3

C16_Witness ==
  /\ NaturalDone /\ oracleThrew /\ oracleCalls = 1
  /\ Len(finds) = 2 /\ finds[2].tier = "fallback" /\ finds[2].failed
  /\ resp = ServerError

\* every matching-syntax character of the pattern is escaped by a backslash
RECURSIVE WellEscaped(_)
WellEscaped(re) ==
  IF re = <<>> THEN TRUE
  ELSE IF Head(re) = "\\"
       THEN Len(re) >= 2 /\ WellEscaped(Tail(Tail(re)))
       ELSE Head(re) \notin RegexSpecials /\ WellEscaped(Tail(re))

\* C17 as stated: every pattern of every query object that naturalSearch
\* hands to the store, at Tier 1, Tier 2 and Tier 3, is escaped
C17_EveryTermEscaped ==
  req.kind = "natural"
    => \A k \in 1..Len(finds) :
         \A n \in 1..Len(finds[k].filter.orConds) :
           WellEscaped(finds[k].filter.orConds[n].regex)

\* the well-formed date strings among strs, as dates
WellFormedBounds(strs) ==
  LET good == SelectSeq(strs, LAMBDA d : d.valid)
  IN [k \in 1..Len(good) |-> good[k].t]

\* the hints hold a date string that is not a date
MalformedHint ==
  /\ searchParams.hasDateFilters
  /\ \/ \E k \in 1..Len(searchParams.from) : ~searchParams.from[k].valid
     \/ \E k \in 1..Len(searchParams.to) : ~searchParams.to[k].valid

\* C18 as stated: when the hints hold a malformed date string, the Tier 2
\* query object holds the well-formed bounds only, with the types and the
\* patterns, and the request, if it is answered with a success, is answered
\* with the enhanced tier
C18_MalformedDateBoundOmitted ==
  (req.kind = "natural" /\ Len(finds) >= 2 /\ finds[2].tier = "enhanced" /\ MalformedHint)
    => /\ finds[2].filter.gte = WellFormedBounds(searchParams.from)
       /\ finds[2].filter.lte = WellFormedBounds(searchParams.to)
       /\ finds[2].filter.hasOr /\ finds[2].filter.orConds # <<>>
       /\ (pc = "done" /\ resp.success) => resp.searchType = "enhanced"

\* the string holds a whitespace character
hasWhitespace(s) == \E i \in 1..Len(s) : IsSpace(s[i])

\* the words of a string: its maximal runs of characters that are not
\* whitespace
wordsOf(s) ==
  { w \in Range(split(collapseWhitespace(s))) : w # <<>> }

\* the pattern set the claim gives for a keyword list
ClaimedExpansion(keywords) ==
  UNION { {keywords[k]} \cup
            (IF hasWhitespace(keywords[k])
             THEN {stripWhitespace(keywords[k])} \cup wordsOf(keywords[k])
             ELSE {}) : k \in 1..Len(keywords) }

\* the patterns of a Tier 2 query object
PatternsOf(f) == { f.orConds[n].regex : n \in 1..Len(f.orConds) }

\* the request has made its Tier 2 store call
Tier2Called ==
  req.kind = "natural" /\ Len(finds) >= 2 /\ finds[2].tier = "enhanced"

\* C19 as stated: with a non-empty list of keywords (all of them strings)
\* the patterns of the Tier 2 query object are those of: each keyword, and
\* for a keyword holding whitespace its whitespace-stripped form and its
\* words; for the keyword "keepson structure" they are the four patterns
\* keepson structure, keepsonstructure, keepson, structure
C19_KeywordExpansion ==
  (Tier2Called /\ searchParams.hasKeywords /\ Len(searchParams.keywords) > 0)
    => /\ PatternsOf(finds[2].filter)
            = { escapeRegex(p) : p \in ClaimedExpansion(searchParams.keywords) }
       /\ searchParams.keywords = <<S_keepsonStructure>>
            => PatternsOf(finds[2].filter)
                 = { S_keepsonStructure,
                     <<"k", "e", "e", "p", "s", "o", "n", "s", "t", "r", "u", "c", "t", "u", "r", "e">>,
                     <<"k", "e", "e", "p", "s", "o", "n">>,
                     <<"s", "t", "r", "u", "c", "t", "u", "r", "e">> }

\* C20 as stated: with no keywords (the key missing, or an empty list) the
\* patterns of the Tier 2 query object are the raw query and, when the raw
\* query holds whitespace, its whitespace-stripped form; the match-any list
\* is not empty
C20_NoKeywordsPatterns ==
  (Tier2Called /\ ~(searchParams.hasKeywords /\ Len(searchParams.keywords) > 0))
    => /\ PatternsOf(finds[2].filter)
            = { escapeRegex(p) :
                  p \in {req.query} \cup
                        (IF hasWhitespace(req.query)
                         THEN {stripWhitespace(req.query)} ELSE {}) }
       /\ finds[2].filter.hasOr /\ finds[2].filter.orConds # <<>>

\* the response in hand is a success of naturalSearch answered by Tier 2
EnhancedAnswer ==
  NaturalSuccess /\ resp.searchType = "enhanced"

\* C21: every record of a response answered by Tier 2 satisfies the whole
\* Tier 2 filter: it belongs to the requesting user, one of the Tier 2
\* patterns occurs (letter case aside) in its title, summary, content or
\* tags, its type is one of the types the AI service gave when it gave any,
\* and its creation time lies within the date bounds the AI service gave
C21_EnhancedSatisfiesFilter ==
  EnhancedAnswer =>
    \A k \in 1..Len(resp.records) :
      LET r == resp.records[k]
          patterns == allVariationsOf(searchParams, req.query)
      IN /\ r.user = req.user
         /\ \E n \in 1..Len(patterns) : LiteralHit(r, patterns[n])
         /\ Len(searchParams.types) > 0 => r.type \in Range(searchParams.types)
         /\ searchParams.hasDateFilters =>
              /\ \A n \in 1..Len(searchParams.from) :
                    r.createdAt >= searchParams.from[n].t
              /\ \A n \in 1..Len(searchParams.to) :
                    r.createdAt <= searchParams.to[n].t

\* Tier 2 answers with a record under a type restriction and a date bound
C21_Witness ==
  /\ EnhancedAnswer
  /\ Len(resp.records) > 0
  /\ Len(searchParams.types) > 0
  /\ searchParams.hasDateFilters
  /\ Len(searchParams.from) > 0

\* the words of a query: its maximal runs of characters that are not
\* whitespace, in order
queryWords(q) ==
  SelectSeq(split(collapseWhitespace(q)), LAMBDA w : w # <<>>)

\* the phrases of the contiguous sub-sequences of the words
PhrasesOf(ws) ==
  { join(slice(ws, i, j)) : i \in 0..(Len(ws) - 1), j \in 1..Len(ws) } \ {<<>>}

\* the patterns of a call of the generator, letter case aside
Folded(patterns) == { toLowerCase(patterns[k]) : k \in 1..Len(patterns) }

\* C22 as stated: the result of generateAllPatterns holds the query, its
\* lowercase form, for a query with spaces the two whitespace-stripped forms,
\* every word longer than 2 characters in lowercase, and for every contiguous
\* sub-sequence of the query's words whose phrase is longer than 3 characters
\* the phrase and its whitespace-stripped form (letter case aside; the words
\* are the pieces between the blanks of the query)
C22_EveryPhraseGenerated ==
  \A c \in 1..Len(generated) :
    LET q == generated[c].query
        P == Range(generated[c].patterns)
        ws == split(q)
    IN /\ q \in P /\ toLowerCase(q) \in P
       /\ includesSpace(q) =>
            stripWhitespace(q) \in P /\ stripWhitespace(toLowerCase(q)) \in P
       /\ \A k \in 1..Len(ws) : Len(ws[k]) > 2 => toLowerCase(ws[k]) \in P
       /\ \A ph \in PhrasesOf(ws) :
            Len(ph) > 3 =>
              /\ toLowerCase(ph) \in Folded(generated[c].patterns)
              /\ stripWhitespace(toLowerCase(ph)) \in Folded(generated[c].patterns)

\* C23: for a query of several words no word of one or two characters is a
\* pattern of its own; for the query "is it ok" none of is, it, ok is in the
\* result, and every pattern of the result is a phrase of the query's words,
\* or the whitespace-stripped form of one, of at least 4 characters
C23_NoShortWordAlone ==
  \A c \in 1..Len(generated) :
    LET q == generated[c].query
        P == Range(generated[c].patterns)
        ws == queryWords(q)
    IN /\ Len(ws) > 1 =>
            \A k \in 1..Len(ws) :
              Len(ws[k]) <= 2 => ws[k] \notin P /\ toLowerCase(ws[k]) \notin P
       /\ q = S_isItOk =>
            /\ P \cap {S_is, S_it, S_ok} = {}
            /\ \A p \in P :
                 /\ Len(p) >= 4
                 /\ \E ph \in PhrasesOf(ws) : p = ph \/ p = stripWhitespace(ph)

\* the generator has been called on "is it ok" and has given two patterns
C23_Witness ==
  /\ Len(generated) > 0
  /\ generated[1].query = S_isItOk
  /\ Len(generated[1].patterns) = 2

DateAdmits(r, body) ==
  /\ body.dateFrom # <<>> => r.createdAt >= body.dateFrom[1].t
  /\ body.dateTo # <<>> => r.createdAt <= body.dateTo[1].t

\* C25: the page of advancedSearch is read from the records whose creation
\* time is at or after dateFrom when only dateFrom is given, at or before
\* dateTo when only dateTo is given, within [dateFrom, dateTo] when both are,
\* and from all records when neither is: each bound applies on its own
C25_DateBoundsIndependent ==
  AdvancedSuccess =>
    LET undated == [finds[1].filter EXCEPT !.gte = <<>>, !.lte = <<>>]
        admitted == SelectSeq(finds[1].snapshot,
                              LAMBDA r : DateAdmits(r, req.body))
    IN /\ \A k \in 1..Len(resp.records) : DateAdmits(resp.records[k], req.body)
       /\ resp.records = Find(admitted, undated, SORT_ORDER, skip,
                              OrDefault(req.body.limit, LIMIT))

\* a response to a body with both bounds: a record is returned, an earlier
\* and a later record of the user are left out
C25_Witness ==
  /\ AdvancedSuccess
  /\ req.body.dateFrom # <<>> /\ req.body.dateTo # <<>>
  /\ Len(resp.records) > 0
  /\ \E i, j \in 1..Len(finds[1].snapshot) :
       /\ finds[1].snapshot[i].user = req.user
       /\ finds[1].snapshot[j].user = req.user
       /\ finds[1].snapshot[i].createdAt < req.body.dateFrom[1].t
       /\ finds[1].snapshot[j].createdAt > req.body.dateTo[1].t

\* the step is an updateRecord
UpdateStep == mutations' # mutations /\ lastOp'.op = "update"

C27_SummaryFollowsContent ==
  ( /\ lastOp.op = "update" /\ lastOp.status = OK
    /\ lastOp.hasContent /\ lastOp.content # lastOp.target.content )
    => \E i \in 1..Len(store) :
         /\ store[i].id = lastOp.id
         /\ store[i].content = lastOp.content
         /\ store[i].geminiSummary
              \in { extractSummaryFromText(lastOp.content, aiFails) :
                      aiFails \in BOOLEAN }

\* C28 as stated, its first half, for a page that holds records: in every
\* such response of advancedSearch, whatever record operations ran between
\* the page query and the count query, totalRecords is at least skip plus
\* the number of records of the page
C28_PaginationConsistent ==
  (AdvancedSuccess /\ Len(resp.records) > 0) =>
    resp.pagination.totalRecords >= skip + Len(resp.records)

\* C29 as stated: no pattern of the Tier 2 query object is the empty string,
\* and every record of a response answered by Tier 2 holds one of the
\* keywords of the AI service, or one of their words
C29_NoEmptyPattern ==
  /\ Tier2Called => <<>> \notin PatternsOf(finds[2].filter)
  /\ (EnhancedAnswer /\ searchParams.hasKeywords /\ Len(searchParams.keywords) > 0
        /\ ~searchParams.badKeyword)
       => \A k \in 1..Len(resp.records) :
            \E n \in 1..Len(searchParams.keywords) :
              \E w \in {searchParams.keywords[n]}
                         \cup wordsOf(searchParams.keywords[n])
                         \cup {stripWhitespace(searchParams.keywords[n])} :
                LiteralHit(resp.records[k], w)

\* C30 as stated: after a createRecord that uploaded a file and answered
\* with an error the blob store does not hold the file, and every file of
\* the blob store is the file of exactly one record
C30_NoOrphanFile ==
  lastOp.op = "create" =>
    /\ (lastOp.publicId # <<>> /\ lastOp.status >= BAD_REQUEST)
         => lastOp.publicId \notin blobs
    /\ \A b \in blobs :
         Cardinality({ i \in 1..Len(store) : store[i].cloudinaryPublicId = b }) = 1

====
